---- MODULE Spec2Model ----
(***************************************************************************)
(* CLOCK-Pro cache of dgryski/go-clockpro (src/clockpro.go).               *)
(*                                                                         *)
(* The Cache struct is the state.  container/list elements and the         *)
(* *metaEntry records they carry are heap objects with identities          *)
(* (1..MaxElts, 1..MaxEnts, Nil = the nil pointer), so that a hand left on *)
(* a removed element, a nil hand and an entry shared by two elements are   *)
(* all representable.  A public call runs as a sequence of steps over an   *)
(* explicit call stack (Set -> meta_add -> evict -> hand_cold -> hand_hot  *)
(* -> hand_test -> hand_cold ...); a Go panic, a loop or a recursion that   *)
(* does not end, ends the run in a fault.                                  *)
(***************************************************************************)
EXTENDS Integers, Sequences, FiniteSets

\* ---------------------------------------------------------------- bounds
MaxSize == 2
NumKeys == 5
MaxDepth == 30
LogSteps == 8
MaxScan == 4
FillSize == 3

\* ------------------------------------------------------------- constants
Nil == 0
ptTest == 0
ptCold == 1
ptHot == 2

Absent == -1

Keys == 1..NumKeys
\* the values a caller passes to Set: Nil is Go's nil interface value
Values == {Nil, 1, 2}
Sizes == 0..MaxSize

MaxElts == 2 * MaxSize + 3
MaxEnts == 2 * MaxSize + 3
EltIds == 1..MaxElts
EntIds == 1..MaxEnts

NoEntry == [ptype |-> ptTest, key |-> 0, val |-> Nil, ref |-> FALSE]

VARIABLES mem_max, mem_cold, meta, metaKeys,
          hand_pos_hot, hand_pos_cold, hand_pos_test,
          hand_idx_hot, hand_idx_cold, hand_idx_test,
          count_hot, count_cold, count_test,
          elts, ents, stack, fault, last

vars == <<mem_max, mem_cold, meta, metaKeys,
          hand_pos_hot, hand_pos_cold, hand_pos_test,
          hand_idx_hot, hand_idx_cold, hand_idx_test,
          count_hot, count_cold, count_test,
          elts, ents, stack, fault, last>>

\* ------------------------------------------------------- container/list
Range(f) == {f[i] : i \in DOMAIN f}

Min(S) == CHOOSE x \in S : \A y \in S : x <= y

\* e.list != nil
Linked(s, e) == e \in Range(s.meta)

\* one-based position of a linked element
Pos(s, e) == CHOOSE i \in 1..Len(s.meta) : s.meta[i] = e

Front(s) == IF Len(s.meta) = 0 THEN Nil ELSE s.meta[1]

Back(s) == IF Len(s.meta) = 0 THEN Nil ELSE s.meta[Len(s.meta)]

\* e.Next() of a non-nil element: nil for a removed or the last element
Next_(s, e) ==
    IF Linked(s, e) /\ Pos(s, e) < Len(s.meta) THEN s.meta[Pos(s, e) + 1] ELSE Nil

\* e.Prev() of a non-nil element: nil for a removed or the first element
Prev_(s, e) ==
    IF Linked(s, e) /\ Pos(s, e) > 1 THEN s.meta[Pos(s, e) - 1] ELSE Nil

Panic(s, why) == [s EXCEPT !.fault = why]

Ok(s) == s.fault = "none"

\* the elements and entries the program can still reach
LiveElts(s) ==
    (Range(s.meta) \cup {s.hand_pos_hot, s.hand_pos_cold, s.hand_pos_test}
       \cup Range(s.metaKeys)) \cap EltIds

LiveEnts(s, stk) ==
    ({s.elts[e] : e \in LiveElts(s)} \cup {stk[i].arg : i \in DOMAIN stk}) \cap EntIds

\* allocation: a fresh object is one nothing refers to
NewElt(s) == Min(EltIds \ LiveElts(s))

NewEnt(s, stk) == Min(EntIds \ LiveEnts(s, stk))

\* Pointers, keys and values are opaque: the program compares them for equality
\* (a value with nil only) and nothing else, so a program state is its heap up
\* to a renaming of the objects, of the keys and of the values.  Canon forgets
\* the unreachable objects (the garbage collector) and names the others in a
\* fixed order: the list's elements front to back, then any unlinked element a
\* hand or the key index still refers to; each entry after the first element
\* that carries it, then mentry of a frame; each key after the first entry that
\* has it, then any other key of the index, then the key of the call; each value
\* after the first entry that has it, then the value of the call.
AppendNew(seq, x, ids) == IF x \in ids /\ x \notin Range(seq) THEN Append(seq, x) ELSE seq

RECURSIVE AppendAll(_, _, _)
AppendAll(seq, xs, ids) ==
    IF xs = <<>> THEN seq
    ELSE AppendAll(AppendNew(seq, Head(xs), ids), Tail(xs), ids)

EltOrder(s) ==
    AppendAll(s.meta,
              <<s.hand_pos_hot, s.hand_pos_cold, s.hand_pos_test>>
                \o [k \in 1..NumKeys |-> s.metaKeys[k]],
              EltIds)

EntOrder(s, stk, eo) ==
    AppendAll(<<>>, [i \in 1..Len(eo) |-> s.elts[eo[i]]]
                      \o [i \in 1..Len(stk) |-> stk[i].arg], EntIds)

KeyOrder(s, key, mo) ==
    AppendAll(<<>>, [i \in 1..Len(mo) |-> s.ents[mo[i]].key]
                      \o [k \in 1..NumKeys |-> IF s.metaKeys[k] # Absent THEN k ELSE 0]
                      \o <<key>>, Keys)

ValOrder(s, val, mo) ==
    AppendAll(<<>>, [i \in 1..Len(mo) |-> s.ents[mo[i]].val] \o <<val>>, Values \ {Nil})

\* the new name of x under the order ord; nil and the absent mark keep theirs
Rename(ord, x) ==
    IF \E i \in 1..Len(ord) : ord[i] = x
    THEN CHOOSE i \in 1..Len(ord) : ord[i] = x
    ELSE x

\* the cache s under the orders eo of its elements, mo of its entries, ko of its
\* keys and vo of its values
Canon(s, eo, mo, ko, vo) ==
    [s EXCEPT
       !.meta = [i \in 1..Len(s.meta) |-> Rename(eo, s.meta[i])],
       !.metaKeys = [k \in Keys |->
                       IF k <= Len(ko) THEN Rename(eo, s.metaKeys[ko[k]]) ELSE Absent],
       !.hand_pos_hot = Rename(eo, s.hand_pos_hot),
       !.hand_pos_cold = Rename(eo, s.hand_pos_cold),
       !.hand_pos_test = Rename(eo, s.hand_pos_test),
       !.elts = [e \in EltIds |->
                   IF e <= Len(eo) THEN Rename(mo, s.elts[eo[e]]) ELSE Nil],
       !.ents = [m \in EntIds |->
                   IF m <= Len(mo)
                   THEN [s.ents[mo[m]] EXCEPT !.key = Rename(ko, @),
                                              !.val = Rename(vo, @)]
                   ELSE NoEntry]]

CanonStack(stk, mo) ==
    [i \in 1..Len(stk) |->
        [fn |-> stk[i].fn, pc |-> stk[i].pc, arg |-> Rename(mo, stk[i].arg)]]

InsertAt(seq, i, x) == SubSeq(seq, 1, i - 1) \o <<x>> \o SubSeq(seq, i, Len(seq))

RemoveAt(seq, i) == SubSeq(seq, 1, i - 1) \o SubSeq(seq, i + 1, Len(seq))

\* h := h.Prev(), a nil receiver panics
HandPrev(s, h) ==
    IF ~Ok(s) THEN s
    ELSE IF s[h] = Nil THEN Panic(s, "nil_deref")
    ELSE [s EXCEPT ![h] = Prev_(s, s[h])]

\* if h == nil { h = c.meta.Back() }
WrapBack(s, h) == IF Ok(s) /\ s[h] = Nil THEN [s EXCEPT ![h] = Back(s)] ELSE s

\* h := h.Prev(); if h == nil { h = c.meta.Back() }
HandPrevWrap(s, h) == WrapBack(HandPrev(s, h), h)

\* idx++ ; h = h.Next(); if h == nil { h = c.meta.Front(); idx = 0 }
HandNextWrap(s, h, i) ==
    IF ~Ok(s) THEN s
    ELSE IF s[h] = Nil THEN Panic(s, "nil_deref")
    ELSE LET n == Next_(s, s[h])
         IN IF n = Nil
            THEN [s EXCEPT ![h] = Front(s), ![i] = 0]
            ELSE [s EXCEPT ![h] = n, ![i] = s[i] + 1]

\* ------------------------------------------------------------ the cache
\* the Cache struct, with the heap it points into, as one value
Cur ==
    [mem_max |-> mem_max, mem_cold |-> mem_cold, meta |-> meta, metaKeys |-> metaKeys,
     hand_pos_hot |-> hand_pos_hot, hand_pos_cold |-> hand_pos_cold,
     hand_pos_test |-> hand_pos_test,
     hand_idx_hot |-> hand_idx_hot, hand_idx_cold |-> hand_idx_cold,
     hand_idx_test |-> hand_idx_test,
     count_hot |-> count_hot, count_cold |-> count_cold, count_test |-> count_test,
     elts |-> elts, ents |-> ents, fault |-> fault]

\* New(size)
New(size) ==
    [mem_max |-> size, mem_cold |-> size, meta |-> <<>>,
     metaKeys |-> [k \in Keys |-> Absent],
     hand_pos_hot |-> Nil, hand_pos_cold |-> Nil, hand_pos_test |-> Nil,
     hand_idx_hot |-> 0, hand_idx_cold |-> 0, hand_idx_test |-> 0,
     count_hot |-> 0, count_cold |-> 0, count_test |-> 0,
     elts |-> [e \in EltIds |-> Nil], ents |-> [m \in EntIds |-> NoEntry],
     fault |-> "none"]

\* c.metaKeys[key]: nil for a missing key
Lookup(s, key) == IF s.metaKeys[key] = Absent THEN Nil ELSE s.metaKeys[key]

\* what Get returns for key in state s (Nil is the miss)
GetValue(s, key) ==
    LET v == Lookup(s, key)
    IN IF v = Nil THEN Nil ELSE s.ents[s.elts[v]].val

\* Get without the test of line 94: it marks a node that has no value
Get_marks_shadow(s, key) ==
    LET v == Lookup(s, key)
    IN IF v = Nil THEN s
       ELSE [s EXCEPT !.ents[s.elts[v]].ref = TRUE]

\* Get: the state it leaves
Get(s, key) ==
    LET v == Lookup(s, key)
    IN IF v = Nil THEN s
       ELSE IF s.ents[s.elts[v]].val = Nil THEN s
       ELSE [s EXCEPT !.ents[s.elts[v]].ref = TRUE]

\* meta_add, lines 155-160: the first element
meta_add_first(s, mentry) ==
    LET elt == NewElt(s)
    IN [s EXCEPT !.meta = <<elt>> \o s.meta, !.elts[elt] = mentry,
                 !.metaKeys[s.ents[mentry].key] = elt, !.hand_pos_hot = elt,
                 !.hand_pos_cold = elt, !.hand_pos_test = elt]

\* meta_add, line 163: InsertBefore returns nil when its mark is not in the list
meta_add_insert(s, mentry) ==
    IF Linked(s, s.hand_pos_hot)
    THEN LET elt == NewElt(s)
         IN [s EXCEPT !.meta = InsertAt(s.meta, Pos(s, s.hand_pos_hot), elt),
                      !.elts[elt] = mentry, !.metaKeys[s.ents[mentry].key] = elt]
    ELSE [s EXCEPT !.metaKeys[s.ents[mentry].key] = Nil]

\* meta_add, lines 165-167
meta_add_cold_prev(s) ==
    IF s.hand_idx_cold >= s.hand_idx_hot THEN HandPrev(s, "hand_pos_cold") ELSE s

\* meta_add, lines 169-171
meta_add_test_prev(s) ==
    IF s.hand_idx_test >= s.hand_idx_hot THEN HandPrev(s, "hand_pos_test") ELSE s

\* meta_add, lines 154-174: link mentry before hand_pos_hot
meta_add_link(s, mentry) ==
    IF s.hand_pos_hot = Nil
    THEN meta_add_first(s, mentry)
    ELSE HandPrev(meta_add_test_prev(meta_add_cold_prev(meta_add_insert(s, mentry))),
                  "hand_pos_hot")

\* meta_add, lines 176-184
meta_add_cold_next(s) ==
    IF Ok(s) /\ s.hand_idx_cold > s.hand_idx_hot
    THEN HandNextWrap(s, "hand_pos_cold", "hand_idx_cold") ELSE s

\* meta_add, lines 188-195
meta_add_test_next(s) ==
    IF Ok(s) /\ s.hand_idx_test >= s.hand_idx_hot
    THEN HandNextWrap(s, "hand_pos_test", "hand_idx_test") ELSE s

\* meta_add after its evict(): link mentry before hand_pos_hot and fix the hands
\* (lines 196-201 move the hot hand)
meta_add(s, mentry) ==
    HandNextWrap(meta_add_test_next(meta_add_cold_next(meta_add_link(s, mentry))),
                 "hand_pos_hot", "hand_idx_hot")

\* one hand of meta_del: step back off the element being removed
DelHandPos(s, h, elt) == IF Ok(s) /\ elt = s[h] THEN HandPrevWrap(s, h) ELSE s

\* one hand index of meta_del
DelHandIdx(s, i, idx) ==
    IF s[i] >= idx
    THEN [s EXCEPT ![i] = IF s[i] - 1 < 0 THEN Len(s.meta) - 1 ELSE s[i] - 1]
    ELSE s

\* meta_del, lines 220-229: the zero-based position of elt, Len when not found
meta_del_idx(s, elt) == IF Linked(s, elt) THEN Pos(s, elt) - 1 ELSE Len(s.meta)

\* meta_del without lines 231-250: a hand stays on the element being removed
meta_del_hands_stay(s, elt) == s

\* meta_del, lines 231-250: the hands step back off elt
meta_del_hands(s, elt) ==
    DelHandPos(DelHandPos(DelHandPos(s, "hand_pos_hot", elt), "hand_pos_cold", elt),
               "hand_pos_test", elt)

\* meta_del, line 252: Remove(nil) dereferences nil, Remove of an unlinked
\* element does nothing
meta_del_remove(s, elt) ==
    IF ~Ok(s) THEN s
    ELSE IF elt = Nil THEN Panic(s, "nil_deref")
    ELSE IF Linked(s, elt) THEN [s EXCEPT !.meta = RemoveAt(s.meta, Pos(s, elt))]
    ELSE s

\* meta_del, lines 254-275: the hand indexes
meta_del_idxs(s, idx) ==
    IF ~Ok(s) THEN s
    ELSE DelHandIdx(DelHandIdx(DelHandIdx(s, "hand_idx_hot", idx),
                               "hand_idx_cold", idx), "hand_idx_test", idx)

\* meta_del without the delete of line 216: the key stays in the index
meta_del_keeps_key(s, key) ==
    IF ~Ok(s) THEN s
    ELSE IF s.metaKeys[key] = Absent THEN Panic(s, "not_present")
    ELSE meta_del_idxs(
             meta_del_remove(meta_del_hands(s, s.metaKeys[key]), s.metaKeys[key]),
             meta_del_idx(s, s.metaKeys[key]))

\* meta_del, lines 206-279
meta_del(s, key) ==
    IF ~Ok(s) THEN s
    ELSE IF s.metaKeys[key] = Absent THEN Panic(s, "not_present")
    ELSE meta_del_idxs(
             meta_del_remove(
                 meta_del_hands([s EXCEPT !.metaKeys[key] = Absent], s.metaKeys[key]),
                 s.metaKeys[key]),
             meta_del_idx(s, s.metaKeys[key]))

\* hand_cold without line 305: the demoted node keeps its value
hand_cold_visit_keeps_value(s) ==
    IF s.hand_pos_cold = Nil THEN Panic(s, "nil_deref")
    ELSE LET m == s.elts[s.hand_pos_cold]
         IN IF s.ents[m].ptype = ptCold
            THEN IF s.ents[m].ref
                 THEN [s EXCEPT !.ents[m].ptype = ptHot, !.ents[m].ref = FALSE,
                                !.count_cold = @ - 1, !.count_hot = @ + 1]
                 ELSE [s EXCEPT !.ents[m].ptype = ptTest,
                                !.count_cold = @ - 1, !.count_test = @ + 1]
            ELSE s

\* hand_cold, lines 294-312: classify the entry under the cold hand
hand_cold_visit(s) ==
    IF s.hand_pos_cold = Nil THEN Panic(s, "nil_deref")
    ELSE LET m == s.elts[s.hand_pos_cold]
         IN IF s.ents[m].ptype = ptCold
            THEN IF s.ents[m].ref
                 THEN [s EXCEPT !.ents[m].ptype = ptHot, !.ents[m].ref = FALSE,
                                !.count_cold = @ - 1, !.count_hot = @ + 1]
                 ELSE [s EXCEPT !.ents[m].ptype = ptTest, !.ents[m].val = Nil,
                                !.count_cold = @ - 1, !.count_test = @ + 1]
            ELSE s

\* does hand_cold_visit demote (and so enter the shadow loop)?
hand_cold_demotes(s) ==
    /\ s.hand_pos_cold # Nil
    /\ s.ents[s.elts[s.hand_pos_cold]].ptype = ptCold
    /\ ~s.ents[s.elts[s.hand_pos_cold]].ref

\* hand_cold, lines 314-319
hand_cold_advance(s) == HandNextWrap(s, "hand_pos_cold", "hand_idx_cold")

\* hand_hot, lines 336-345: the node under the hand
hand_hot_visit(s) ==
    LET m == s.elts[s.hand_pos_hot]
    IN IF s.ents[m].ptype = ptHot
       THEN IF s.ents[m].ref
            THEN [s EXCEPT !.ents[m].ref = FALSE]
            ELSE [s EXCEPT !.ents[m].ptype = ptCold,
                           !.count_hot = @ - 1, !.count_cold = @ + 1]
       ELSE s

\* hand_hot, lines 334-352
hand_hot_body(s) ==
    IF s.hand_pos_hot = Nil THEN Panic(s, "nil_deref")
    ELSE HandNextWrap(hand_hot_visit(s), "hand_pos_hot", "hand_idx_hot")

\* hand_test, lines 374-380: after meta_del
hand_test_removed(s, prev, pidx) ==
    IF ~Ok(s) THEN s
    ELSE [s EXCEPT !.hand_pos_test = prev, !.hand_idx_test = pidx,
                   !.count_test = @ - 1,
                   !.mem_cold = IF @ > 1 THEN @ - 1 ELSE @]

\* hand_test, lines 365-381: a Test node under the hand is removed
hand_test_visit(s) ==
    IF s.ents[s.elts[s.hand_pos_test]].ptype = ptTest
    THEN LET p == Prev_(s, s.hand_pos_test)
         IN hand_test_removed(meta_del(s, s.ents[s.elts[s.hand_pos_test]].key),
                              IF p = Nil THEN Back(s) ELSE p,
                              IF p = Nil THEN Len(s.meta) ELSE s.hand_idx_test - 1)
    ELSE s

\* hand_test, lines 363-388
hand_test_body(s) ==
    IF s.hand_pos_test = Nil THEN Panic(s, "nil_deref")
    ELSE HandNextWrap(hand_test_visit(s), "hand_pos_test", "hand_idx_test")

\* ------------------------------------------------------------ the steps
\* A call in progress is the cache s and the call stack stk, the running frame
\* last.  A frame is the function, the point it resumes at, for meta_add its
\* mentry argument, and the points it has been at with the cache as it was then.
Frame(fn, pc, arg) == [fn |-> fn, pc |-> pc, arg |-> arg, at |-> {}]

Cfg(s, stk) == [s |-> s, stk |-> stk]

PopOf(stk) == SubSeq(stk, 1, Len(stk) - 1)

GotoOf(stk, pc) == [stk EXCEPT ![Len(stk)].pc = pc]

\* the frames of Set's call of meta_add, whose first statement calls evict
CallMetaAdd(then, mentry) ==
    <<Frame("Set", then, 0), Frame("meta_add", "evict", mentry), Frame("evict", "loop", 0)>>

\* Set's shadow branch without line 128: the node keeps its ref bit
SetShadow_keeps_ref(s, key, value) ==
    LET m == s.elts[Lookup(s, key)]
        s1 == [s EXCEPT !.mem_cold = IF @ < s.mem_max THEN @ + 1 ELSE @,
                        !.ents[m].ref = TRUE, !.ents[m].val = value,
                        !.ents[m].ptype = ptHot, !.count_test = @ - 1]
    IN meta_del(s1, s1.ents[m].key)

\* Set, lines 124-132
SetShadow(s, key, value) ==
    LET m == s.elts[Lookup(s, key)]
        s1 == [s EXCEPT !.mem_cold = IF @ < s.mem_max THEN @ + 1 ELSE @,
                        !.ents[m].ref = FALSE, !.ents[m].val = value,
                        !.ents[m].ptype = ptHot, !.count_test = @ - 1]
    IN meta_del(s1, s1.ents[m].key)

\* Set's resident branch without line 136: the node keeps its value
SetResident_keeps_value(s, key, value) ==
    LET m == s.elts[Lookup(s, key)]
    IN [s EXCEPT !.ents[m].ref = TRUE]

\* Set, lines 136-137
SetResident(s, key, value) ==
    LET m == s.elts[Lookup(s, key)]
    IN [s EXCEPT !.ents[m].val = value, !.ents[m].ref = TRUE]

\* Set, line 140
SetNew(s, m, key, value) ==
    [s EXCEPT !.ents[m] = [ref |-> FALSE, val |-> value, ptype |-> ptCold, key |-> key]]

\* Set up to its call of meta_add (a Set that finds a value is then over)
SetEnter(s, key, value) ==
    IF Lookup(s, key) # Nil
    THEN IF s.ents[s.elts[Lookup(s, key)]].val = Nil
         THEN Cfg(SetShadow(s, key, value),
                  CallMetaAdd("count_hot", s.elts[Lookup(s, key)]))
         ELSE Cfg(SetResident(s, key, value), <<>>)
    ELSE Cfg(SetNew(s, NewEnt(s, <<>>), key, value),
             CallMetaAdd("count_cold", NewEnt(s, <<>>)))

\* Set, lines 134 and 142: the counter is raised after meta_add returns
SetLeave(s, stk) ==
    Cfg(IF stk[Len(stk)].pc = "count_hot"
        THEN [s EXCEPT !.count_hot = @ + 1]
        ELSE [s EXCEPT !.count_cold = @ + 1], PopOf(stk))

\* evict with its test off by one: it runs only once the cache is over capacity
evict_when_over(s, stk) ==
    IF s.mem_max < s.count_hot + s.count_cold
    THEN Cfg(s, stk \o <<Frame("hand_cold", "visit", 0)>>)
    ELSE Cfg(s, PopOf(stk))

\* evict, lines 285-287
evict(s, stk) ==
    IF s.mem_max <= s.count_hot + s.count_cold
    THEN Cfg(s, stk \o <<Frame("hand_cold", "visit", 0)>>)
    ELSE Cfg(s, PopOf(stk))

\* hand_cold without the loop of lines 308-310: the shadows are never trimmed
hand_cold_keeps_shadows(s, stk, pc) ==
    IF pc = "visit"
    THEN Cfg(hand_cold_visit(s),
             GotoOf(stk, IF hand_cold_demotes(s) THEN "shadow" ELSE "advance"))
    ELSE IF pc = "shadow"
    THEN Cfg(s, GotoOf(stk, "advance"))
    ELSE IF pc = "advance"
    THEN Cfg(hand_cold_advance(s), GotoOf(stk, "budget"))
    ELSE IF s.mem_max - s.mem_cold < s.count_hot
         THEN Cfg(s, stk \o <<Frame("hand_hot", "enter", 0)>>)
         ELSE Cfg(s, PopOf(stk))

\* hand_cold from the point pc to its next call or its return
hand_cold(s, stk, pc) ==
    IF pc = "visit"
    THEN Cfg(hand_cold_visit(s),
             GotoOf(stk, IF hand_cold_demotes(s) THEN "shadow" ELSE "advance"))
    ELSE IF pc = "shadow"
    \* lines 308-310
    THEN IF s.mem_max < s.count_test
         THEN Cfg(s, stk \o <<Frame("hand_test", "enter", 0)>>)
         ELSE Cfg(s, GotoOf(stk, "advance"))
    ELSE IF pc = "advance"
    THEN Cfg(hand_cold_advance(s), GotoOf(stk, "budget"))
    \* lines 321-323
    ELSE IF s.mem_max - s.mem_cold < s.count_hot
         THEN Cfg(s, stk \o <<Frame("hand_hot", "enter", 0)>>)
         ELSE Cfg(s, PopOf(stk))

hand_hot(s, stk, pc) ==
    IF pc = "enter"
    \* lines 330-332
    THEN IF s.hand_pos_hot = s.hand_pos_test
         THEN Cfg(s, GotoOf(stk, "body") \o <<Frame("hand_test", "enter", 0)>>)
         ELSE Cfg(s, GotoOf(stk, "body"))
    ELSE Cfg(hand_hot_body(s), PopOf(stk))

hand_test(s, stk, pc) ==
    IF pc = "enter"
    \* lines 359-361
    THEN IF s.hand_pos_test = s.hand_pos_cold
         THEN Cfg(s, GotoOf(stk, "body") \o <<Frame("hand_cold", "visit", 0)>>)
         ELSE Cfg(s, GotoOf(stk, "body"))
    ELSE Cfg(hand_test_body(s), PopOf(stk))

\* the step of the running frame
Dispatch(s, stk, top) ==
    IF top.fn = "Set" THEN SetLeave(s, stk)
    ELSE IF top.fn = "meta_add" THEN Cfg(meta_add(s, top.arg), PopOf(stk))
    ELSE IF top.fn = "evict" THEN evict(s, stk)
    ELSE IF top.fn = "hand_cold" THEN hand_cold(s, stk, top.pc)
    ELSE IF top.fn = "hand_hot" THEN hand_hot(s, stk, top.pc)
    ELSE hand_test(s, stk, top.pc)

\* The program is deterministic and a function's steps depend on the cache and
\* on the point it is at, not on its callers.  So a frame that comes back to a
\* point with the cache as it was then loops for ever, and a frame that reaches a
\* point with the cache as it was when a running caller of the same function was
\* at that point recurses for ever (the goroutine stack overflows).
Looping(s, stk) == <<stk[Len(stk)].pc, s>> \in stk[Len(stk)].at

Recursing(s, stk) ==
    \E i \in 1..(Len(stk) - 1) :
        stk[i].fn = stk[Len(stk)].fn /\ <<stk[Len(stk)].pc, s>> \in stk[i].at

\* the running frame notes the point it is at
Visit(s, stk) == [stk EXCEPT ![Len(stk)].at = @ \cup {<<stk[Len(stk)].pc, s>>}]

\* the model follows a call no deeper than MaxDepth frames
StackLimit(c) ==
    IF Ok(c.s) /\ Len(c.stk) > MaxDepth
    THEN Cfg(Panic(c.s, "depth_limit"), c.stk)
    ELSE c

\* one step of the running frame
StepOf(s, stk) ==
    IF Looping(s, stk) THEN Cfg(Panic(s, "diverged"), stk)
    ELSE IF Recursing(s, stk) THEN Cfg(Panic(s, "stack_overflow"), stk)
    ELSE StackLimit(Dispatch(s, Visit(s, stk), stk[Len(stk)]))

Done(c) == c.stk = <<>> \/ ~Ok(c.s)

\* at most 2^n steps of the call c
RECURSIVE Steps(_, _)
Steps(c, n) ==
    IF Done(c) THEN c
    ELSE IF n = 0 THEN StepOf(c.s, c.stk)
    ELSE CHOOSE r \in {Steps(h, n - 1) : h \in {Steps(c, n - 1)}} : TRUE

\* the model follows a call no longer than 2^LogSteps steps
StepLimit(c) == IF Done(c) THEN c ELSE Cfg(Panic(c.s, "step_limit"), c.stk)

\* a call runs to its return or to a fault
Run(c) == CHOOSE r \in {StepLimit(Steps(h, LogSteps)) : h \in {c}} : TRUE

\* ---------------------------------------------------------- the actions
\* A public call is recorded with its operation and arguments.  For Get, val is
\* the value returned.  For Set, case tells what the key was when the call began:
\* "new" (not in the index), "shadow" (a Test node), "resident" (a Hot or Cold
\* node that has a value) or "novalue" (a Hot or Cold node whose value is nil).
Call(op, key, val, case) == [op |-> op, key |-> key, val |-> val, case |-> case]

SetCase(s, key) ==
    IF Lookup(s, key) = Nil THEN "new"
    ELSE IF s.ents[s.elts[Lookup(s, key)]].ptype = ptTest THEN "shadow"
    ELSE IF s.ents[s.elts[Lookup(s, key)]].val = Nil THEN "novalue"
    ELSE "resident"

Idle == stack = <<>> /\ fault = "none"

\* the state a call leaves: cache s, call stack stk, and the record of the call,
\* under the orders of the elements, the entries, the keys and the values
Renamed(s, stk, call, eo, mo, ko, vo) ==
    [s |-> Canon(s, eo, mo, ko, vo), stk |-> CanonStack(stk, mo),
     call |-> [call EXCEPT !.key = Rename(ko, @), !.val = Rename(vo, @)]]

RenamedKeys(s, stk, call, eo, mo) ==
    CHOOSE o \in {Renamed(s, stk, call, eo, mo, ko, vo) :
                    ko \in {KeyOrder(s, call.key, mo)},
                    vo \in {ValOrder(s, call.val, mo)}} : TRUE

RenamedEnts(s, stk, call, eo) ==
    CHOOSE o \in {RenamedKeys(s, stk, call, eo, mo) : mo \in {EntOrder(s, stk, eo)}} : TRUE

Outcome(s, stk, call) ==
    CHOOSE o \in {RenamedEnts(s, stk, call, eo) : eo \in {EltOrder(s)}} : TRUE

OutcomeOf(c, call) == Outcome(c.s, c.stk, call)

Becomes(o) ==
    /\ mem_max' = o.s.mem_max
    /\ mem_cold' = o.s.mem_cold
    /\ meta' = o.s.meta
    /\ metaKeys' = o.s.metaKeys
    /\ hand_pos_hot' = o.s.hand_pos_hot
    /\ hand_pos_cold' = o.s.hand_pos_cold
    /\ hand_pos_test' = o.s.hand_pos_test
    /\ hand_idx_hot' = o.s.hand_idx_hot
    /\ hand_idx_cold' = o.s.hand_idx_cold
    /\ hand_idx_test' = o.s.hand_idx_test
    /\ count_hot' = o.s.count_hot
    /\ count_cold' = o.s.count_cold
    /\ count_test' = o.s.count_test
    /\ elts' = o.s.elts
    /\ ents' = o.s.ents
    /\ fault' = o.s.fault
    /\ stack' = o.stk
    /\ last' = o.call

\* the state after c := New(size)
InitOf(size) ==
    LET s == New(size)
    IN /\ mem_max = s.mem_max
       /\ mem_cold = s.mem_cold
       /\ meta = s.meta
       /\ metaKeys = s.metaKeys
       /\ hand_pos_hot = s.hand_pos_hot
       /\ hand_pos_cold = s.hand_pos_cold
       /\ hand_pos_test = s.hand_pos_test
       /\ hand_idx_hot = s.hand_idx_hot
       /\ hand_idx_cold = s.hand_idx_cold
       /\ hand_idx_test = s.hand_idx_test
       /\ count_hot = s.count_hot
       /\ count_cold = s.count_cold
       /\ count_test = s.count_test
       /\ elts = s.elts
       /\ ents = s.ents
       /\ fault = s.fault
       /\ stack = <<>>
       /\ last = Call("New", 0, Nil, "none")

Init == \E size \in Sizes : InitOf(size)

\* Set(key, value), run to its return
SetCall(s, key, value) ==
    OutcomeOf(Run(SetEnter(s, key, value)), Call("Set", key, value, SetCase(s, key)))

Set(key, value) ==
    /\ Idle
    /\ \E o \in {SetCall(Cur, key, value)} : Becomes(o)

\* Get(key); the call is recorded with the value it returns
GetCall(s, key) ==
    Outcome(Get(s, key), <<>>,
            Call("Get", key, GetValue(s, key),
                 IF GetValue(s, key) = Nil THEN "miss" ELSE "hit"))

GetKey(key) ==
    /\ Idle
    /\ \E o \in {GetCall(Cur, key)} : Becomes(o)

\* The cache holds nothing about a key that is not in metaKeys, so the unknown
\* keys are interchangeable: a call names a known key or the least unknown one.
CallKeys ==
    {k \in Keys : metaKeys[k] # Absent}
      \cup (IF \E k \in Keys : metaKeys[k] = Absent
            THEN {Min({k \in Keys : metaKeys[k] = Absent})} ELSE {})

\* Nor does the program look into a value, but to compare it with nil: a call
\* passes nil, a value the cache holds or the least value it does not hold.
HeldValues == {ents[m].val : m \in EntIds} \ {Nil}

CallValues ==
    HeldValues \cup (IF Values \ ({Nil} \cup HeldValues) # {}
                     THEN {Min(Values \ ({Nil} \cup HeldValues))} ELSE {})

Next ==
    \/ \E key \in CallKeys, value \in CallValues \cup {Nil} : Set(key, value)
    \/ \E key \in CallKeys : GetKey(key)

Spec == Init /\ [][Next]_vars

\* the same program when every value passed to Set is a present (non-nil) value
NextPresent ==
    \/ \E key \in CallKeys, value \in CallValues : Set(key, value)
    \/ \E key \in CallKeys : GetKey(key)

SpecPresent == Init /\ [][NextPresent]_vars

\* Caches of every capacity up to FillSize under a workload of present values
\* that keeps at most mem_max + 1 keys in the index (the known keys are named
\* 1, 2, ... in ring order, so the key of a call is a known one or the next).
InitFill == \E size \in 1..FillSize : InitOf(size)

NextFill ==
    \/ \E key \in CallKeys, value \in CallValues :
          key <= mem_max + 1 /\ Set(key, value)
    \/ \E key \in CallKeys : key <= mem_max + 1 /\ GetKey(key)

SpecFill == InitFill /\ [][NextFill]_vars

\* The same program one step of a call at a time: Set runs up to its call of
\* meta_add, then the running frame takes its steps until the stack is empty.
\* While a call runs the objects and the keys keep their names; the state is
\* renamed when the call returns.
Bare(stk) ==
    [i \in 1..Len(stk) |-> [fn |-> stk[i].fn, pc |-> stk[i].pc, arg |-> stk[i].arg]]

Midway(c, call) ==
    IF c.stk = <<>> THEN OutcomeOf(c, call)
    ELSE [s |-> c.s, stk |-> Bare(c.stk), call |-> call]

SetBegin(key, value) ==
    /\ Idle
    /\ \E o \in {Midway(SetEnter(Cur, key, value),
                        Call("Set", key, value, SetCase(Cur, key)))} : Becomes(o)

Step ==
    /\ stack # <<>>
    /\ fault = "none"
    /\ \E o \in {Midway(StackLimit(Dispatch(Cur, stack, stack[Len(stack)])), last)} :
          Becomes(o)

NextSteps ==
    \/ \E key \in CallKeys, value \in CallValues \cup {Nil} : SetBegin(key, value)
    \/ \E key \in CallKeys : GetKey(key)
    \/ Step

SpecSteps == Init /\ [][NextSteps]_vars

NextStepsPresent ==
    \/ \E key \in CallKeys, value \in CallValues : SetBegin(key, value)
    \/ \E key \in CallKeys : GetKey(key)
    \/ Step

SpecStepsPresent == Init /\ [][NextStepsPresent]_vars

\* the faults of the program; no call outruns the bounds MaxDepth and LogSteps
TypeOK == fault \in {"none", "nil_deref", "not_present", "stack_overflow", "diverged"}

\* ----------------------------------------------------------- the claims
\* the entry of the node the index has for key (key is in the index)
EntryOf(key) == ents[elts[metaKeys[key]]]

Known(key) == metaKeys[key] \notin {Absent, Nil}

\* the entries of the ring, front to back
Ring == [i \in 1..Len(meta) |-> ents[elts[meta[i]]]]

\* the number of ring nodes of type pt
CountOf(pt) == Cardinality({i \in 1..Len(meta) : Ring[i].ptype = pt})

\* a public call has returned on a cache of capacity >= 1
InService == Idle /\ mem_max >= 1

\* the step is a public call that returns
Returns(op) == Idle /\ Idle' /\ mem_max >= 1 /\ last'.op = op

\* everything but the entries: the ring, the index, the hands, the counters
Structure ==
    <<mem_max, mem_cold, meta, metaKeys, elts,
      hand_pos_hot, hand_pos_cold, hand_pos_test,
      hand_idx_hot, hand_idx_cold, hand_idx_test,
      count_hot, count_cold, count_test>>

\* C1: after every public call on a cache of capacity >= 1 the resident entries
\* number at most the capacity: count_hot + count_cold <= mem_max.
C1_ResidentBound == InService => count_hot + count_cold <= mem_max

\* a Set of a new key on a full cache has evicted and left the cache full
C1_Witness ==
    /\ InService /\ last.op = "Set" /\ last.case = "new"
    /\ count_hot + count_cold = mem_max /\ count_test > 0 /\ count_hot > 0

\* C2: on a cache of capacity >= 1 every Set call returns (its loops and the
\* mutual calls of the hands finish) and leaves the cache usable.
C2_SetReturns == mem_max >= 1 => fault = "none"

\* C3: a Get(k) right after Set(k, v) returns v, in each of Set's cases.
C3_GetAfterSet == (InService /\ last.op = "Set") => GetValue(Cur, last.key) = last.val

\* a Set of a shadow key has returned, after an eviction, with a value another
\* resident key does not have
C3_Witness ==
    /\ InService /\ last.op = "Set" /\ last.case = "shadow" /\ last.val # Nil
    /\ count_test > 0
    /\ \E k \in Keys : Known(k) /\ EntryOf(k).val \notin {Nil, last.val}

\* C4: Get(k) misses when k is not in the index or its node is a Test node and
\* otherwise returns the stored value; it changes nothing but the ref bit of
\* the resident node of k, which it sets, and on a miss it changes nothing.
C4_GetEffect ==
    Returns("Get") =>
        LET k == last'.key
            hit == Known(k) /\ EntryOf(k).ptype # ptTest
        IN /\ last'.val = IF hit THEN EntryOf(k).val ELSE Nil
           /\ UNCHANGED Structure
           /\ \A m \in EntIds :
                \/ ents'[m] = ents[m]
                \/ /\ hit /\ m = elts[metaKeys[k]]
                   /\ ents'[m] = [ents[m] EXCEPT !.ref = TRUE]
           /\ last'.val = Nil => ents' = ents

\* C4, of every step: a Get returns the stored value or misses and changes
\* nothing but the ref bit of the node it hits.
C4_GetFrame == [][C4_GetEffect]_vars

\* a Get has hit a node and set its ref bit while a Test node is in the ring
C4_Witness ==
    /\ InService /\ last.op = "Get" /\ last.case = "hit"
    /\ EntryOf(last.key).ref /\ count_test > 0

\* C5: a Set(k, v) that finds k's node in Test shadow leaves that node in the
\* ring as Hot with value v and ref = false (the evictions of the same call
\* have not touched it), and Get(k) returns v.
C5_ShadowRecovery ==
    (InService /\ last.op = "Set" /\ last.case = "shadow") =>
        /\ Known(last.key)
        /\ Linked(Cur, metaKeys[last.key])
        /\ EntryOf(last.key) =
             [ptype |-> ptHot, key |-> last.key, val |-> last.val, ref |-> FALSE]
        /\ GetValue(Cur, last.key) = last.val

\* a shadow key has been set again while another Hot node was in the ring
C5_Witness ==
    /\ InService /\ last.op = "Set" /\ last.case = "shadow" /\ last.val # Nil
    /\ count_hot >= 2

\* C6: Set(k, v) on a resident key (a Hot or Cold node) changes that node's
\* value to v and its ref to true and nothing else; so a second Set(k, v) leaves
\* the state a Get(k) leaves.
\* the cache s with the value of key's node overwritten and its ref bit set
Overwritten(s, key, value) ==
    [s EXCEPT !.ents[s.elts[s.metaKeys[key]]].val = value,
              !.ents[s.elts[s.metaKeys[key]]].ref = TRUE]

C6_Overwrite ==
    /\ (Returns("Set") /\ last'.case \in {"resident", "novalue"}) =>
          \E key \in Keys, value \in Values :
              /\ Known(key) /\ EntryOf(key).ptype # ptTest
              /\ Outcome(Overwritten(Cur, key, value), <<>>,
                         Call("Set", key, value, last'.case))
                   = [s |-> Cur', stk |-> <<>>, call |-> last']
    /\ Returns("Set") =>
          SetCall(Cur', last'.key, last'.val).s = GetCall(Cur', last'.key).s

\* C6, of every step: a Set of a resident key changes only that node's value and
\* ref bit, and a second Set(k, v) leaves the state a Get(k) leaves.
C6_SetResidentFrame == [][C6_Overwrite]_vars

\* C7: after every public call the three counters are the numbers of Hot, Cold
\* and Test nodes of the ring, and the ring length is their sum.
C7_CountsMatch ==
    InService =>
        /\ count_hot = CountOf(ptHot)
        /\ count_cold = CountOf(ptCold)
        /\ count_test = CountOf(ptTest)
        /\ Len(meta) = count_hot + count_cold + count_test

\* C8: after every public call count_test <= mem_max and the ring has at most
\* 2 * mem_max nodes.
C8_ShadowBound == InService => count_test <= mem_max /\ Len(meta) <= 2 * mem_max

\* the ring is full of residents and of shadows after hand_test has removed one
C8_Witness ==
    /\ InService /\ mem_max >= 2 /\ count_test = mem_max /\ Len(meta) = 2 * mem_max
    /\ mem_cold < mem_max

\* C9: after every public call a ring node is a Test node exactly when it has no
\* value, whatever value (nil included) was passed to Set.
C9_TestIffNoValue ==
    InService => \A i \in 1..Len(meta) : (Ring[i].ptype = ptTest) <=> (Ring[i].val = Nil)

\* C10: after every public call 1 <= mem_cold <= mem_max; mem_cold is raised only
\* by Set on a shadow key while below mem_max, and lowered only by hand_test
\* removing a Test node while above 1.
MemColdInRange == InService => 1 <= mem_cold /\ mem_cold <= mem_max

\* the nodes the hands of this call removed from the ring
Removed == Len(meta) + (IF last'.case = "new" THEN 1 ELSE 0) - Len(meta')

\* the rise of this call: one for a Set of a Test shadow key below mem_max
Raised == IF last'.case = "shadow" /\ mem_cold < mem_max THEN 1 ELSE 0

Floor1(n) == IF n < 1 THEN 1 ELSE n

C10_MemColdStep ==
    /\ MemColdInRange /\ MemColdInRange'
    /\ Returns("Set") => mem_cold' = Floor1(mem_cold + Raised - Removed)
    /\ Returns("Get") => mem_cold' = mem_cold

\* C10, of every step: mem_cold stays in 1..mem_max, a Set raises it by one only
\* on a shadow key and lowers it by the nodes hand_test removed, not below 1.
C10_MemCold == [][C10_MemColdStep]_vars

\* C11: after every public call the key index and the ring are in bijection:
\* an indexed key maps to a linked element whose entry has that key, the key of
\* every ring element is indexed and maps back to it, and no two ring elements
\* have the same key.
C11_IndexBijection ==
    InService =>
        /\ \A k \in Keys : metaKeys[k] # Absent =>
              /\ metaKeys[k] \in Range(meta)
              /\ EntryOf(k).key = k
        /\ \A i \in 1..Len(meta) : metaKeys[Ring[i].key] = meta[i]
        /\ \A i, j \in 1..Len(meta) : Ring[i].key = Ring[j].key => i = j

\* a Set of a shadow key has unlinked and relinked its node, and hand_test has
\* removed another node, while the ring holds residents and shadows
C11_Witness ==
    /\ InService /\ last.op = "Set" /\ last.case = "shadow"
    /\ count_test > 0 /\ Len(meta) >= 3 /\ mem_cold < mem_max

\* C12: after every public call the three hands are all nil exactly when the
\* ring is empty, and otherwise each hand is on an element linked in the ring.
Hands == {hand_pos_hot, hand_pos_cold, hand_pos_test}

\* C12: the hands are all nil on an empty ring and all on linked elements
\* otherwise.
C12_HandsLive ==
    InService =>
        IF Len(meta) = 0 THEN Hands = {Nil} ELSE Hands \subseteq Range(meta)

\* hand_test has removed the node it stood on, with the three hands apart
C12_Witness ==
    /\ InService /\ last.op = "Set" /\ mem_cold < mem_max
    /\ Len(meta) >= 3 /\ Cardinality(Hands) = 3

\* C13: scan resistance.  A scan is a run of Set calls on N > mem_max distinct
\* keys the cache has never seen, nothing else in between.  A Hot entry is
\* resident after any scan, and Get returns its value.  (A node becomes Hot in
\* Set's shadow branch or in hand_cold on a set ref bit, so the key of a Hot
\* node has been passed to two public calls at least.)
\* the keys of a scan: keys no call has named
ScanKeys == (NumKeys + 1)..(NumKeys + MaxScan)

\* the cache s with room in its index for the keys of a scan
BeforeScan(s) ==
    [s EXCEPT !.metaKeys = [k \in Keys \cup ScanKeys |->
                               IF k \in Keys THEN s.metaKeys[k] ELSE Absent]]

\* s after Set calls on the first n keys of a scan, in order
RECURSIVE Scan(_, _)
Scan(s, n) ==
    IF n = 0 THEN BeforeScan(s)
    ELSE CHOOSE r \in {IF Ok(h) THEN Run(SetEnter(h, NumKeys + n, 1)).s ELSE h :
                         h \in {Scan(s, n - 1)}} : TRUE

\* C13: after a scan of any length n > mem_max every Hot entry is still resident
\* and Get returns its value.
C13_ScanResistance ==
    InService =>
        \A k \in Keys, n \in (mem_max + 1)..MaxScan :
            (Known(k) /\ EntryOf(k).ptype = ptHot) =>
                /\ Ok(Scan(Cur, n))
                /\ GetValue(Scan(Cur, n), k) = EntryOf(k).val

\* the entry of the node the index of s has for key
EntryIn(s, key) == s.ents[s.elts[s.metaKeys[key]]]

\* s after the calls Set(kvs[1][1], kvs[1][2]), Set(kvs[2][1], kvs[2][2]), ...
RECURSIVE SetAll(_, _)
SetAll(s, kvs) ==
    IF kvs = <<>> \/ ~Ok(s) THEN s
    ELSE SetAll(Run(SetEnter(s, Head(kvs)[1], Head(kvs)[2])).s, Tail(kvs))

\* C14: on a new cache of size 3, Set(a,1), Set(b,2), Set(c,3), Set(d,4) evict a,
\* the oldest key, into Test shadow; Set(a,10) then makes Get(a) return 10 and
\* leaves a's node Hot.  (a, b, c, d are the keys 1, 2, 3, 4.)
C14_PromotionViaShadow ==
    (InService /\ last.op = "New" /\ mem_max = 3) =>
        LET s4 == SetAll(Cur, <<<<1, 1>>, <<2, 2>>, <<3, 3>>, <<4, 4>>>>)
            s5 == SetAll(s4, <<<<1, 10>>>>)
        IN /\ Ok(s4) /\ EntryIn(s4, 1).ptype = ptTest
           /\ Ok(s5) /\ GetValue(s5, 1) = 10 /\ EntryIn(s5, 1).ptype = ptHot

\* C15: on a cache of any capacity M >= 1 filled by M Sets of distinct keys (M
\* Cold nodes, no ref bit set, no Hot and no Test node), a Set of a further new
\* key demotes exactly one of the M entries to Test shadow, leaves the others
\* resident with their values, makes Get of the new key return its value and
\* leaves M residents.
Filled ==
    /\ InService
    /\ count_cold = mem_max /\ count_hot = 0 /\ count_test = 0 /\ Len(meta) = mem_max
    /\ \A i \in 1..Len(meta) : Ring[i].ptype = ptCold /\ ~Ring[i].ref

\* s is Cur after the Set of a new key with value v
EvictsOne(s, v) ==
    /\ Ok(s)
    /\ Cardinality({k \in Keys : Known(k) /\ GetValue(s, k) = Nil}) = 1
    /\ \A k \in Keys : Known(k) =>
          /\ s.metaKeys[k] \in Range(s.meta)
          /\ \/ EntryIn(s, k).ptype = ptTest /\ GetValue(s, k) = Nil
             \/ EntryIn(s, k).ptype # ptTest /\ GetValue(s, k) = EntryOf(k).val
    /\ GetValue(s, NumKeys + 1) = v
    /\ s.count_hot + s.count_cold = s.mem_max
    /\ Len(s.meta) = s.mem_max + 1

\* C15: the Set of a new key on a filled cache evicts exactly one entry.
C15_SimpleEviction ==
    Filled => \A v \in Values \ {Nil} :
                  EvictsOne(SetAll(BeforeScan(Cur), <<<<NumKeys + 1, v>>>>), v)

\* the Set of a new key has evicted from a filled cache of the largest capacity
C15_Witness ==
    /\ InService /\ mem_max = FillSize /\ last.op = "Set" /\ last.case = "new"
    /\ Len(meta) = mem_max + 1 /\ count_test = 1 /\ count_hot = 0
    /\ \A i \in 1..Len(meta) : ~Ring[i].ref
    /\ GetValue(Cur, last.key) = last.val

\* C16: New(size) with size < 1 is rejected at construction: it yields no usable
\* cache, and the misuse is reported by New, not later inside Get or Set.
C16_NewRejects == mem_max < 1 => (fault # "none" /\ last.op = "New")

\* C17: the lifecycle of a node.  At every step of every call, an entry changes
\* its classification only so: created Cold by Set of an unknown key; Test ->
\* Hot by Set of a shadow key; Cold -> Hot by hand_cold when ref is set (ref is
\* then cleared); Cold -> Test by hand_cold when ref is clear (the value is
\* dropped); Hot -> Cold by hand_hot when ref is clear; a Test node removed by
\* hand_test.  So a value is dropped only from a Cold node with ref clear, and a
\* Hot or Cold node is never removed.
\* the entries of the ring and the entry a running Set is about to link
InPlay ==
    {elts[meta[i]] : i \in 1..Len(meta)}
      \cup ({stack[i].arg : i \in 1..Len(stack)} \cap EntIds)

\* the function of the running frame
Running == IF stack = <<>> THEN "none" ELSE stack[Len(stack)].fn

\* the classifications along the ring
RingTypes == [i \in 1..Len(meta) |-> Ring[i].ptype]

\* the step from the entry was to the entry is, made by the function by
Lifecycle(was, is, by) ==
    /\ was.ptype # is.ptype =>
          \/ /\ was.ptype = ptTest /\ is.ptype = ptHot
             /\ by = "none" /\ last'.op = "Set" /\ last'.case = "shadow"
          \/ /\ was.ptype = ptCold /\ is.ptype = ptHot
             /\ by = "hand_cold" /\ was.ref /\ ~is.ref
          \/ /\ was.ptype = ptCold /\ is.ptype = ptTest
             /\ by = "hand_cold" /\ ~was.ref /\ is.val = Nil
          \/ /\ was.ptype = ptHot /\ is.ptype = ptCold
             /\ by = "hand_hot" /\ ~was.ref
    /\ (was.val # Nil /\ is.val = Nil) =>
          by = "hand_cold" /\ was.ptype = ptCold /\ ~was.ref

C17_LifecycleStep ==
    (mem_max >= 1 /\ fault' = "none") =>
        IF stack # <<>> /\ stack' = <<>>
        THEN RingTypes' = RingTypes
        ELSE \A m \in EntIds :
               /\ (m \in InPlay /\ m \in InPlay') => Lifecycle(ents[m], ents'[m], Running)
               /\ (m \notin InPlay /\ m \in InPlay') =>
                     /\ Running = "none" /\ last'.op = "Set" /\ last'.case = "new"
                     /\ ents'[m].ptype = ptCold
               /\ (m \in InPlay /\ m \notin InPlay') =>
                     Running = "hand_test" /\ ents[m].ptype = ptTest

\* C17, of every step: the entries change their classification only as the
\* lifecycle allows.
C17_Lifecycle == [][C17_LifecycleStep]_vars

\* C18: insertion does not move the hands.  When meta_add, after its evict,
\* links a node into a non-empty ring, the node goes immediately before the node
\* of hand_hot, and each of the three hands is on the same node after the
\* insertion as before it, also when hands coincide.
\* the step is meta_add linking a node into a non-empty ring
Inserts == Running = "meta_add" /\ mem_max >= 1 /\ Len(meta) > 0

\* the new node is linked immediately before the node the hot hand was on
LinkedBeforeHot ==
    /\ fault' = "none"
    /\ hand_pos_hot \in Range(meta)
    /\ \E e \in EltIds \ Range(meta) :
          /\ meta' = InsertAt(meta, Pos(Cur, hand_pos_hot), e)
          /\ elts'[e] = stack[Len(stack)].arg

C18_InsertStep ==
    Inserts => /\ LinkedBeforeHot
               /\ hand_pos_hot' = hand_pos_hot
               /\ hand_pos_cold' = hand_pos_cold
               /\ hand_pos_test' = hand_pos_test

\* C18, of every step: meta_add links the node before the hot hand's node and
\* leaves the three hands on their nodes.
C18_InsertKeepsHands == [][C18_InsertStep]_vars

\* C19: the hand procedures nest at most one deep: hand_hot calls hand_test, or
\* hand_test calls hand_cold, when their hands coincide, and none of hand_cold,
\* hand_hot, hand_test is entered again while an activation of it is running.
HandProcs == {"hand_cold", "hand_hot", "hand_test"}

\* C19: no two activations on the call stack are of the same hand procedure.
C19_NoReentry ==
    mem_max >= 1 =>
        \A i, j \in 1..Len(stack) :
            (i < j /\ stack[i].fn = stack[j].fn) => stack[i].fn \notin HandProcs

\* C20: no runtime fault on a cache of capacity >= 1.  meta_del is never called
\* for a key missing from the index, and wherever hand_cold, hand_hot or
\* hand_test dereferences its hand, and after every meta_del, the hand is not nil
\* and is on an element linked in the (non-empty) ring.
\* the point the running frame is at
At(fn, pcs) == Running = fn /\ stack[Len(stack)].pc \in pcs

\* the hand h of the cache s is on a linked element
LiveHand(s, h) == s[h] # Nil /\ s[h] \in Range(s.meta)

LiveHands(s) ==
    LiveHand(s, "hand_pos_hot") /\ LiveHand(s, "hand_pos_cold") /\ LiveHand(s, "hand_pos_test")

\* the key of the Test node hand_test is about to remove
TestKey == ents[elts[hand_pos_test]].key

C20_NoFaultStep ==
    mem_max >= 1 =>
        /\ fault' \notin {"not_present", "nil_deref"}
        /\ At("hand_cold", {"visit", "advance"}) => LiveHand(Cur, "hand_pos_cold")
        /\ At("hand_hot", {"body"}) => LiveHand(Cur, "hand_pos_hot")
        /\ At("hand_test", {"body"}) =>
              /\ LiveHand(Cur, "hand_pos_test")
              /\ ents[elts[hand_pos_test]].ptype = ptTest =>
                    /\ metaKeys[TestKey] # Absent
                    /\ LiveHands(meta_del(Cur, TestKey))
                    /\ LiveHand(hand_test_visit(Cur), "hand_pos_test")
        /\ (Idle /\ stack' # <<>> /\ last'.case # "new") => LiveHands(Cur')

\* C20, of every step: no panic of meta_del or of a nil hand, and every hand
\* that is dereferenced, or left by meta_del, is on a linked element.
C20_NoFault == [][C20_NoFaultStep]_vars

\* VerifyIdxs, lines 495-520: on a non-empty list each hand index is the
\* zero-based position of its hand (a hand that is not in the list has none)
IdxAgrees(s, h, i) == LiveHand(s, h) /\ Pos(s, s[h]) - 1 = s[i]

IdxsAgree(s) ==
    \/ Len(s.meta) = 0
    \/ /\ IdxAgrees(s, "hand_pos_hot", "hand_idx_hot")
       /\ IdxAgrees(s, "hand_pos_cold", "hand_idx_cold")
       /\ IdxAgrees(s, "hand_pos_test", "hand_idx_test")

\* a check point that the call reaches in the state s
Verified(s) == Ok(s) => IdxsAgree(s)

\* the check points of meta_add: lines 162, 186 and 203
MetaAddVerified(s, mentry) ==
    /\ s.hand_pos_hot # Nil => IdxsAgree(s)
    /\ Verified(meta_add_cold_next(meta_add_link(s, mentry)))
    /\ Verified(meta_add(s, mentry))

\* the check points of meta_del: lines 218 and 277
MetaDelVerified(s, key) == IdxsAgree(s) /\ Verified(meta_del(s, key))

C21_IdxsStep ==
    mem_max >= 1 =>
        /\ Idle => IdxsAgree(Cur)
        /\ (Idle /\ stack' # <<>> /\ last'.case # "new") => Verified(Cur')
        /\ Running = "meta_add" => MetaAddVerified(Cur, stack[Len(stack)].arg)
        /\ (At("hand_test", {"body"}) /\ hand_pos_test # Nil
              /\ ents[elts[hand_pos_test]].ptype = ptTest /\ metaKeys[TestKey] # Absent) =>
                 MetaDelVerified(Cur, TestKey)

\* C21: at every VerifyIdxs check point (in Set, meta_add and meta_del), on a
\* non-empty list, hand_idx_hot, hand_idx_cold and hand_idx_test are the
\* zero-based positions of hand_pos_hot, hand_pos_cold and hand_pos_test, so the
\* index comparisons of meta_add agree with the order of the hand nodes.
C21_IdxsTrack == [][C21_IdxsStep]_vars

\* C22: on a cache of capacity >= 2 every Set call ends, with bounded nesting of
\* calls: the chain hand_cold -> hand_hot -> hand_test -> hand_cold does not
\* come round with the cache unchanged, and neither the loop of evict nor the
\* hot-budget loop of hand_cold runs for ever.
C22_SetTerminates ==
    mem_max >= 2 => fault \notin {"stack_overflow", "diverged", "depth_limit", "step_limit"}

====
